---- MODULE Spec2Model ----
(***************************************************************************)
(* heuristic-dates (src/src/main.rs): scan a directory tree, pick the      *)
(* files whose name carries a date, and per file (one rayon task each)     *)
(* compare the name's date with the EXIF DateTimeOriginal, rewrite the     *)
(* EXIF date through exiftool or set the file's modification time, and     *)
(* move the file to the output directory.                                  *)
(*                                                                         *)
(* A string is a sequence of characters, each character a one-character    *)
(* TLA+ string; "LF" stands for the line feed and "U+0663" for the         *)
(* ARABIC-INDIC DIGIT THREE, a decimal digit that is not ASCII.            *)
(***************************************************************************)
EXTENDS Integers, Sequences, FiniteSets, TLC

\* ------------------------------------------------------------------ bounds

\* Files in the tree below the input directory when the program first starts.
MaxFiles == 2
\* Times the program is started on the same tree, with the same arguments.
MaxRuns == 2

\* ------------------------------------------------------------- characters

\* Option::None, for a value that is a record when it is there.
None == [none |-> TRUE]

AsciiDigits == <<"0", "1", "2", "3", "4", "5", "6", "7", "8", "9">>

IsAsciiDigit(c) == \E i \in 1..10 : AsciiDigits[i] = c

DigitValue(c) == (CHOOSE i \in 1..10 : AsciiDigits[i] = c) - 1

\* The regex crate's \d is Unicode-aware: it matches every decimal digit (Nd).
IsRegexDigit(c) == IsAsciiDigit(c) \/ c = "U+0663"

UpperLetters == <<"A", "B", "C", "D", "E", "F", "G", "H", "I", "J", "K", "L", "M",
                  "N", "O", "P", "Q", "R", "S", "T", "U", "V", "W", "X", "Y", "Z">>

LowerLetters == <<"a", "b", "c", "d", "e", "f", "g", "h", "i", "j", "k", "l", "m",
                  "n", "o", "p", "q", "r", "s", "t", "u", "v", "w", "x", "y", "z">>

\* str::to_lowercase, character by character.
to_lowercase(s) ==
    [i \in 1..Len(s) |->
        IF \E k \in 1..26 : UpperLetters[k] = s[i]
        THEN LowerLetters[CHOOSE k \in 1..26 : UpperLetters[k] = s[i]]
        ELSE s[i]]

starts_with(s, lit) == Len(s) >= Len(lit) /\ SubSeq(s, 1, Len(lit)) = lit

ends_with(s, lit) ==
    Len(s) >= Len(lit) /\ SubSeq(s, Len(s) - Len(lit) + 1, Len(s)) = lit

\* s[from..to] matches \d{to-from+1}.
AllRegexDigits(s, from, to) == \A i \in from..to : IsRegexDigit(s[i])

\* s[from..to] matches .* : the dot matches every character but the line feed.
AnyButNewline(s, from, to) == \A i \in from..to : s[i] # "LF"

Unknown == <<"u", "n", "k", "n", "o", "w", "n">>

DotJpg == <<".", "j", "p", "g">>

DotMp4 == <<".", "m", "p", "4">>

\* ------------------------------------------------------ filename patterns

\* ^<prefix>(\d{8})<sep>(\d{6})\d*.*<ext>$ : what is left after the time is any
\* run of characters without a line feed (\d* is absorbed by .*), then <ext>.
DateTimeMatch(s, prefix, sep, ext) ==
    LET p == Len(prefix)
        q == p + 8 + Len(sep)
    IN  /\ Len(s) >= q + 6 + Len(ext)
        /\ starts_with(s, prefix)
        /\ AllRegexDigits(s, p + 1, p + 8)
        /\ SubSeq(s, p + 9, q) = sep
        /\ AllRegexDigits(s, q + 1, q + 6)
        /\ AnyButNewline(s, q + 7, Len(s) - Len(ext))
        /\ ends_with(s, ext)

DateTimeCaptures(s, prefix, sep) ==
    LET p == Len(prefix)
        q == p + 8 + Len(sep)
    IN  [date |-> SubSeq(s, p + 1, p + 8), time |-> SubSeq(s, q + 1, q + 6)]

\* ^IMG_(\d{8})_(\d{6})\d*.*\.jpg$
img_pattern(s) == DateTimeMatch(s, <<"I", "M", "G", "_">>, <<"_">>, DotJpg)

\* ^VID_(\d{8})_(\d{6})\d*.*\.mp4$
vid_pattern(s) == DateTimeMatch(s, <<"V", "I", "D", "_">>, <<"_">>, DotMp4)

\* ^IMG-(\d{8})-WA\d+.*\.jpg$ : at least one digit follows WA.
img_date_only_pattern(s) ==
    /\ Len(s) >= 20
    /\ starts_with(s, <<"I", "M", "G", "-">>)
    /\ AllRegexDigits(s, 5, 12)
    /\ SubSeq(s, 13, 15) = <<"-", "W", "A">>
    /\ IsRegexDigit(s[16])
    /\ AnyButNewline(s, 17, Len(s) - 4)
    /\ ends_with(s, DotJpg)

\* ^Screenshot_(\d{8})-(\d{6}).*\.jpg$
screenshot_pattern(s) ==
    DateTimeMatch(s, <<"S", "c", "r", "e", "e", "n", "s", "h", "o", "t", "_">>,
                  <<"-">>, DotJpg)

\* The scan's test: the name carries a date.
is_img_with_date(s) ==
    img_pattern(s) \/ img_date_only_pattern(s) \/ screenshot_pattern(s)

is_vid_with_date(s) == vid_pattern(s)

\* A variant that stops after the time, ^IMG_(\d{8})_(\d{6}), and so takes any
\* extension: C4 must tell it from IsDated.
IsDated_NoExtension(s) ==
    /\ Len(s) >= 19
    /\ starts_with(s, <<"I", "M", "G", "_">>)
    /\ AllRegexDigits(s, 5, 12)
    /\ s[13] = "_"
    /\ AllRegexDigits(s, 14, 19)

IsDated(s) == is_img_with_date(s) \/ is_vid_with_date(s)

\* The task's captures, first match wins: date and time start "unknown".
Captures(s) ==
    IF img_pattern(s)
    THEN DateTimeCaptures(s, <<"I", "M", "G", "_">>, <<"_">>)
    ELSE IF vid_pattern(s)
    THEN DateTimeCaptures(s, <<"V", "I", "D", "_">>, <<"_">>)
    ELSE IF img_date_only_pattern(s)
    THEN [date |-> SubSeq(s, 5, 12), time |-> Unknown]
    ELSE IF screenshot_pattern(s)
    THEN DateTimeCaptures(s, <<"S", "c", "r", "e", "e", "n", "s", "h", "o", "t", "_">>,
                          <<"-">>)
    ELSE [date |-> Unknown, time |-> Unknown]

\* ------------------------------------------------------------ date values

\* A NaiveDateTime. leap = 1 is chrono's leap second: second 59 with a
\* nanosecond part of 1_000_000_000, what a parsed second of 60 becomes.
DateTime(y, m, d, h, mi, sec, leap) ==
    [year |-> y, month |-> m, day |-> d, hour |-> h, minute |-> mi,
     second |-> sec, leap |-> leap]

IsLeapYear(y) == ((y % 4) = 0 /\ (y % 100) # 0) \/ (y % 400) = 0

DaysInMonth(y, m) ==
    IF m = 2 THEN (IF IsLeapYear(y) THEN 29 ELSE 28)
    ELSE IF m \in {4, 6, 9, 11} THEN 30 ELSE 31

Key(dt) == <<dt.year, dt.month, dt.day, dt.hour, dt.minute, dt.second, dt.leap>>

\* NaiveDateTime's derived ordering: date, then time of day, then the fraction.
DateTimeLt(a, b) ==
    \E i \in 1..7 :
        /\ Key(a)[i] < Key(b)[i]
        /\ \A j \in 1..(i - 1) : Key(a)[j] = Key(b)[j]

\* Days from 1970-01-01 to the proleptic Gregorian date y-m-d.
DaysFromCivil(y, m, d) ==
    LET yy  == IF m <= 2 THEN y - 1 ELSE y
        era == yy \div 400
        yoe == yy - era * 400
        mp  == IF m > 2 THEN m - 3 ELSE m + 9
        doy == (153 * mp + 2) \div 5 + d - 1
        doe == yoe * 365 + yoe \div 4 - yoe \div 100 + doy
    IN  era * 146097 + doe - 719468

\* new_date.and_utc().timestamp(): the seconds since the epoch, kept as whole
\* days and the second of the day (days * 86400 + secs); the leap second's
\* fraction is not part of it.
timestamp(dt) ==
    [days |-> DaysFromCivil(dt.year, dt.month, dt.day),
     secs |-> dt.hour * 3600 + dt.minute * 60 + dt.second]

\* ------------------------------------------------- chrono parse and format

Num(width, fld) == [kind |-> "num", width |-> width, field |-> fld]

Lit(c) == [kind |-> "lit", ch |-> c]

Space == [kind |-> "space"]

\* "%Y%m%d %H%M%S"
FmtNameDateTime ==
    <<Num(4, "year"), Num(2, "month"), Num(2, "day"), Space,
      Num(2, "hour"), Num(2, "minute"), Num(2, "second")>>

\* "%Y%m%d"
FmtNameDate == <<Num(4, "year"), Num(2, "month"), Num(2, "day")>>

\* "%Y:%m:%d %H:%M:%S"
FmtExif ==
    <<Num(4, "year"), Lit(":"), Num(2, "month"), Lit(":"), Num(2, "day"), Space,
      Num(2, "hour"), Lit(":"), Num(2, "minute"), Lit(":"), Num(2, "second")>>

IsSpace(c) == c = " " \/ c = "LF"

\* The first position at or after pos that holds no white space.
RECURSIVE SkipSpace(_, _)
SkipSpace(s, pos) ==
    IF pos <= Len(s) /\ IsSpace(s[pos]) THEN SkipSpace(s, pos + 1) ELSE pos

\* How many ASCII digits, at most max, start at pos.
RECURSIVE DigitRun(_, _, _)
DigitRun(s, pos, max) ==
    IF max > 0 /\ pos <= Len(s) /\ IsAsciiDigit(s[pos])
    THEN 1 + DigitRun(s, pos + 1, max - 1)
    ELSE 0

RECURSIVE NumberValue(_, _, _)
NumberValue(s, pos, n) ==
    IF n = 0 THEN 0
    ELSE NumberValue(s, pos, n - 1) * 10 + DigitValue(s[pos + n - 1])

NoFields ==
    [year |-> -1, month |-> -1, day |-> -1, hour |-> -1, minute |-> -1, second |-> -1]

\* chrono::format::parse over the items from the k-th on: the fields read, or
\* None. A numeric item skips white space and takes one to width ASCII digits
\* (an unsigned year takes at most four); a space item skips white space; a
\* literal must be there; input left over at the end is an error.
RECURSIVE ParseItems(_, _, _, _, _)
ParseItems(s, pos, items, k, acc) ==
    IF k > Len(items)
    THEN (IF pos > Len(s) THEN acc ELSE None)
    ELSE LET it == items[k]
         IN  IF it.kind = "space"
             THEN ParseItems(s, SkipSpace(s, pos), items, k + 1, acc)
             ELSE IF it.kind = "lit"
             THEN (IF pos <= Len(s) /\ s[pos] = it.ch
                   THEN ParseItems(s, pos + 1, items, k + 1, acc)
                   ELSE None)
             ELSE LET from == SkipSpace(s, pos)
                      n    == DigitRun(s, from, it.width)
                  IN  IF n = 0 THEN None
                      ELSE ParseItems(s, from + n, items, k + 1,
                               [acc EXCEPT ![it.field] = NumberValue(s, from, n)])

\* Parsed::to_naive_date: a day of the calendar, or None.
ValidDate(f) ==
    /\ f.month \in 1..12
    /\ f.day >= 1
    /\ f.day <= DaysInMonth(f.year, f.month)

\* Parsed::to_naive_time: a second of 60 is the leap second of second 59.
ValidTime(f) == f.hour \in 0..23 /\ f.minute \in 0..59 /\ f.second \in 0..60

\* NaiveDateTime::parse_from_str(s, fmt).ok()
ParseDateTime(s, fmt) ==
    LET f == ParseItems(s, 1, fmt, 1, NoFields)
    IN  IF f = None THEN None
        ELSE IF ValidDate(f) /\ ValidTime(f)
        THEN DateTime(f.year, f.month, f.day, f.hour, f.minute,
                      IF f.second = 60 THEN 59 ELSE f.second,
                      IF f.second = 60 THEN 1 ELSE 0)
        ELSE None

\* NaiveDate::parse_from_str(s, "%Y%m%d").ok().and_then(|d| d.and_hms_opt(0, 0, 0))
ParseDateMidnight(s) ==
    LET f == ParseItems(s, 1, FmtNameDate, 1, NoFields)
    IN  IF f = None THEN None
        ELSE IF ValidDate(f) THEN DateTime(f.year, f.month, f.day, 0, 0, 0, 0)
        ELSE None

\* The candidate of a file name: date and time joined by a space, or the date
\* at midnight when no time was captured.
parsed_date(date, time) ==
    IF time # Unknown
    THEN ParseDateTime(date \o <<" ">> \o time, FmtNameDateTime)
    ELSE ParseDateMidnight(date)

Pad2(n) == <<AsciiDigits[((n \div 10) % 10) + 1], AsciiDigits[(n % 10) + 1]>>

Pad4(n) == Pad2(n \div 100) \o Pad2(n % 100)

\* A variant with the format "%Y-%m-%d %H:%M:%S", which the EXIF parse does not
\* read back: C9 must tell it from formatted.
formatted_DateWithDashes(dt) ==
    Pad4(dt.year) \o <<"-">> \o Pad2(dt.month) \o <<"-">> \o Pad2(dt.day) \o <<" ">>
    \o Pad2(dt.hour) \o <<":">> \o Pad2(dt.minute) \o <<":">>
    \o Pad2(dt.second + dt.leap)

\* new_date.format("%Y:%m:%d %H:%M:%S").to_string(), for the years 0..9999;
\* the leap second is written as second 60.
formatted(dt) ==
    Pad4(dt.year) \o <<":">> \o Pad2(dt.month) \o <<":">> \o Pad2(dt.day) \o <<" ">>
    \o Pad2(dt.hour) \o <<":">> \o Pad2(dt.minute) \o <<":">>
    \o Pad2(dt.second + dt.leap)

\* ------------------------------------------------------------- file system

\* A path is a directory and a file name. The input directory is "in"; the
\* walk lists "in" and "in/sub"; "out" lies outside the input directory.
ScanDirs == {"in", "in/sub"}

NoOutput == "(none)"

\* --output: absent, a directory outside the input directory, or one inside it.
Outputs == {NoOutput, "out", "in/sub"}

Path(dir, name) == [dir |-> dir, name |-> name]

\* The DateTimeOriginal field of the primary image, as exif::Reader gives it.
Absent == [tag |-> "absent"]

\* A value that is not Value::Ascii, or an Ascii value with no component.
NotAscii == [tag |-> "other"]

Ascii(text) == [tag |-> "ascii", text |-> text]

\* read_from_container fails: the file holds no EXIF container.
NoContainer == [container |-> "err", field |-> Absent]

Container(field) == [container |-> "ok", field |-> field]

Stamp(days, secs) == [days |-> days, secs |-> secs]

\* -------------------------------------------------------------------- state

VARIABLES
    args,           \* [dry_run, output]: the command line, the same in every run
    fs,             \* the file system: path -> file, for the paths that exist
    phase,          \* "scan": main walks the tree; "run": the tasks run
    run,            \* how many times the program has been started
    matched_files,  \* the paths the walk pushed
    task,           \* path -> the state of the task of that matched file
    writes,         \* the writes made in this run: [op, target, by (the task)]
    fs_init,        \* the file system when the program first started
    fs0,            \* the file system when the current run started
    prev            \* path -> what the task of that path logged in the last run

vars == <<args, fs, phase, run, matched_files, task, writes, fs_init, fs0, prev>>

\* ------------------------------------------------------------------- inputs

IMG_ == <<"I", "M", "G", "_">>

VID_ == <<"V", "I", "D", "_">>

D20230115 == <<"2", "0", "2", "3", "0", "1", "1", "5">>

D20231301 == <<"2", "0", "2", "3", "1", "3", "0", "1">>

T143000 == <<"1", "4", "3", "0", "0", "0">>

\* IMG_20230115_143000_1.jpg
NameImg == IMG_ \o D20230115 \o <<"_">> \o T143000 \o <<"_", "1">> \o DotJpg

\* IMG-20210601-WA0001.jpg
NameWhatsApp ==
    <<"I", "M", "G", "-", "2", "0", "2", "1", "0", "6", "0", "1", "-", "W", "A",
      "0", "0", "0", "1">> \o DotJpg

\* VID_20230115_143000.mp4
NameVid == VID_ \o D20230115 \o <<"_">> \o T143000 \o DotMp4

\* Screenshot_20230115-143000.jpg
NameScreenshot ==
    <<"S", "c", "r", "e", "e", "n", "s", "h", "o", "t", "_">> \o D20230115
    \o <<"-">> \o T143000 \o DotJpg

\* IMG_20231301_143000.jpg: month 13
NameMonth13 == IMG_ \o D20231301 \o <<"_">> \o T143000 \o DotJpg

\* IMG_20230115_250000.jpg: hour 25
NameHour25 ==
    IMG_ \o D20230115 \o <<"_", "2", "5", "0", "0", "0", "0">> \o DotJpg

\* VID_20231301_143000.mp4: a video with month 13
NameVidMonth13 == VID_ \o D20231301 \o <<"_">> \o T143000 \o DotMp4

\* IMG_20230115_235960.jpg: second 60
NameLeap ==
    IMG_ \o D20230115 \o <<"_", "2", "3", "5", "9", "6", "0">> \o DotJpg

\* IMG_2023011<U+0663>_143000.jpg: a digit for \d that is no ASCII digit
NameArabicDigit ==
    IMG_ \o <<"2", "0", "2", "3", "0", "1", "1", "U+0663">> \o <<"_">> \o T143000
    \o DotJpg

\* notes.txt
NameNotes == <<"n", "o", "t", "e", "s", ".", "t", "x", "t">>

\* IMG_20230115_143000.JPG: the extension is matched case-sensitively
NameUpperExt == IMG_ \o D20230115 \o <<"_">> \o T143000 \o <<".", "J", "P", "G">>

\* IMG-20210601-WA.jpg: no digit after WA
NameNoWaDigit ==
    <<"I", "M", "G", "-", "2", "0", "2", "1", "0", "6", "0", "1", "-", "W", "A">>
    \o DotJpg

\* "2023:01:15 14:30:01": one second after NameImg's date
ExifLater ==
    <<"2", "0", "2", "3", ":", "0", "1", ":", "1", "5", " ",
      "1", "4", ":", "3", "0", ":", "0", "1">>

\* "2023:01:15 14:30:00": NameImg's date
ExifEqual ==
    <<"2", "0", "2", "3", ":", "0", "1", ":", "1", "5", " ",
      "1", "4", ":", "3", "0", ":", "0", "0">>

\* "2021:06:02 10:00:00": before NameImg's date, after NameWhatsApp's
Exif2021 ==
    <<"2", "0", "2", "1", ":", "0", "6", ":", "0", "2", " ",
      "1", "0", ":", "0", "0", ":", "0", "0">>

\* "2023:01:16 00:00:00": the second after NameLeap's leap second
ExifNextDay ==
    <<"2", "0", "2", "3", ":", "0", "1", ":", "1", "6", " ",
      "0", "0", ":", "0", "0", ":", "0", "0">>

\* "0000:00:00 00:00:00": what cameras without a clock write; no date
ExifZero ==
    <<"0", "0", "0", "0", ":", "0", "0", ":", "0", "0", " ",
      "0", "0", ":", "0", "0", ":", "0", "0">>

\* A file name is kept in the state as a TLA+ string; Chars gives its characters,
\* which is what the patterns and the parsers read.
Chars(name) ==
    CASE name = "IMG_20230115_143000_1.jpg"      -> NameImg
      [] name = "IMG-20210601-WA0001.jpg"        -> NameWhatsApp
      [] name = "VID_20230115_143000.mp4"        -> NameVid
      [] name = "Screenshot_20230115-143000.jpg" -> NameScreenshot
      [] name = "IMG_20231301_143000.jpg"        -> NameMonth13
      [] name = "IMG_20230115_250000.jpg"        -> NameHour25
      [] name = "VID_20231301_143000.mp4"        -> NameVidMonth13
      [] name = "IMG_20230115_235960.jpg"        -> NameLeap
      [] name = "IMG_2023011<U+0663>_143000.jpg" -> NameArabicDigit
      [] name = "notes.txt"                      -> NameNotes
      [] name = "IMG_20230115_143000.JPG"        -> NameUpperExt
      [] name = "IMG-20210601-WA.jpg"            -> NameNoWaDigit

Kind(name, exif, openable) == [name |-> name, exif |-> exif, openable |-> openable]

\* The files a tree may hold: a name, what the EXIF reader finds in the file,
\* and whether File::open succeeds.
Kinds ==
    { Kind("IMG_20230115_143000_1.jpg", Container(Ascii(ExifLater)), TRUE),
      Kind("IMG_20230115_143000_1.jpg", Container(Ascii(ExifEqual)), TRUE),
      Kind("IMG_20230115_143000_1.jpg", Container(Ascii(Exif2021)), TRUE),
      Kind("IMG_20230115_143000_1.jpg", Container(Ascii(ExifZero)), TRUE),
      Kind("IMG_20230115_143000_1.jpg", Container(Absent), TRUE),
      Kind("IMG_20230115_143000_1.jpg", Container(NotAscii), TRUE),
      Kind("IMG_20230115_143000_1.jpg", NoContainer, TRUE),
      Kind("IMG_20230115_143000_1.jpg", Container(Ascii(ExifLater)), FALSE),
      Kind("IMG-20210601-WA0001.jpg", Container(Ascii(Exif2021)), TRUE),
      Kind("IMG-20210601-WA0001.jpg", NoContainer, TRUE),
      Kind("VID_20230115_143000.mp4", NoContainer, TRUE),
      Kind("Screenshot_20230115-143000.jpg", NoContainer, TRUE),
      Kind("Screenshot_20230115-143000.jpg", Container(Ascii(ExifLater)), TRUE),
      Kind("IMG_20231301_143000.jpg", Container(Ascii(ExifLater)), TRUE),
      Kind("IMG_20231301_143000.jpg", NoContainer, FALSE),
      Kind("IMG_20230115_250000.jpg", NoContainer, TRUE),
      Kind("VID_20231301_143000.mp4", NoContainer, TRUE),
      Kind("IMG_20230115_235960.jpg", Container(Ascii(ExifNextDay)), TRUE),
      Kind("IMG_20230115_235960.jpg", NoContainer, TRUE),
      Kind("IMG_2023011<U+0663>_143000.jpg", NoContainer, TRUE),
      Kind("notes.txt", NoContainer, TRUE),
      Kind("IMG_20230115_143000.JPG", Container(Ascii(ExifLater)), TRUE),
      Kind("IMG-20210601-WA.jpg", NoContainer, TRUE) }

\* ------------------------------------------------------- names and fields

FileNames == {k.name : k \in Kinds}

\* Only .jpg names (in any case) with a captured date are opened.
IsJpgWithDate(fname, date) ==
    ends_with(to_lowercase(fname), DotJpg) /\ date # Unknown

\* What the program computes from a file name alone, per name: whether the walk
\* pushes it, the captures, whether the task opens the file, and the candidate.
OfName ==
    [n \in FileNames |->
        LET caps == Captures(Chars(n))
        IN  [dated  |-> IsDated(Chars(n)),
             date   |-> caps.date,
             time   |-> caps.time,
             jpg    |-> IsJpgWithDate(Chars(n), caps.date),
             parsed |-> parsed_date(caps.date, caps.time)]]

\* The texts a DateTimeOriginal field can hold: those of the files of the tree
\* and those exiftool is asked to write.
ExifTexts ==
    {k.exif.field.text : k \in {x \in Kinds : x.exif.field.tag = "ascii"}}
    \cup {formatted(OfName[n].parsed) : n \in {x \in FileNames : OfName[x].parsed # None}}

\* NaiveDateTime::parse_from_str(text, "%Y:%m:%d %H:%M:%S").ok(), per text.
OfExifText == [t \in ExifTexts |-> ParseDateTime(t, FmtExif)]

\* ------------------------------------------------------------ the decision

\* exif.get_field(Tag::DateTimeOriginal, In::PRIMARY).and_then(...): the field
\* parsed with "%Y:%m:%d %H:%M:%S", None when it is absent, not ASCII or does
\* not parse.
exif_date(field) == IF field.tag = "ascii" THEN OfExifText[field.text] ELSE None

\* A variant with parsed <= exif_dt for parsed < exif_dt: C1 must tell it from
\* Reconcile.
Reconcile_NotStrict(parsed, exif_dt) ==
    IF parsed # None /\ exif_dt # None
    THEN (IF ~DateTimeLt(exif_dt, parsed) THEN "rewrite" ELSE "no_change")
    ELSE "parse_failed"

\* A variant whose catch-all arm reports "no change": C6 must tell it from
\* Reconcile.
Reconcile_ParseFailureIsNoChange(parsed, exif_dt) ==
    IF parsed # None /\ exif_dt # None /\ DateTimeLt(parsed, exif_dt)
    THEN "rewrite"
    ELSE "no_change"

\* match (parsed_date, exif_date) of a file with an EXIF container.
Reconcile(parsed, exif_dt) ==
    IF parsed # None /\ exif_dt # None
    THEN (IF DateTimeLt(parsed, exif_dt) THEN "rewrite" ELSE "no_change")
    ELSE "parse_failed"

\* The branch of a file without EXIF container: the timestamp, if the name's
\* date parses.
NoExifBranch(parsed) == IF parsed # None THEN "set_time" ELSE "parse_failed"

\* What a task finds out before it changes anything: the captures it prints,
\* and for a .jpg the file as File::open and the EXIF reader see it. `file` is
\* the entry at the task's path, or None when there is none.
Decide(fname, file) ==
    LET n      == OfName[fname]
        base   == [date |-> n.date, time |-> n.time, parsed |-> None,
                   exif_dt |-> None, container |-> "unread", verdict |-> "skipped"]
    IN  IF ~n.jpg THEN base
        ELSE IF file = None \/ ~file.openable
        THEN [base EXCEPT !.verdict = "open_failed"]
        ELSE IF file.exif.container = "ok"
        THEN LET e == exif_date(file.exif.field)
             IN  [base EXCEPT !.parsed = n.parsed, !.exif_dt = e, !.container = "ok",
                              !.verdict = Reconcile(n.parsed, e)]
        ELSE [base EXCEPT !.parsed = n.parsed, !.container = "err",
                          !.verdict = NoExifBranch(n.parsed)]

\* The times a file has before the program runs: later than every date of a
\* name, the access time different in each directory.
InitialMtime == Stamp(19600, 0)

InitialAtime(dir) == IF dir = "in" THEN Stamp(19700, 1) ELSE Stamp(19700, 2)

NewFile(dir, k) ==
    [origin |-> Path(dir, k.name), openable |-> k.openable, exif |-> k.exif,
     mtime |-> InitialMtime, atime |-> InitialAtime(dir)]

\* A placement puts one kind of file in one directory of the tree.
Placements == ScanDirs \X Kinds

PathOf(pl) == Path(pl[1], pl[2].name)

\* The trees of at most n files, no two at the same path.
RECURSIVE TreesUpTo(_)
TreesUpTo(n) ==
    IF n = 0 THEN {{}}
    ELSE LET T == TreesUpTo(n - 1)
         IN  T \cup UNION { { S \cup {x} :
                                x \in {y \in Placements :
                                          \A a \in S : PathOf(a) # PathOf(y)} } :
                            S \in T }

Trees == TreesUpTo(MaxFiles)

TreeFs(S) ==
    [p \in {PathOf(pl) : pl \in S} |->
        LET pl == CHOOSE x \in S : PathOf(x) = p IN NewFile(pl[1], pl[2])]

\* ------------------------------------------------------------------ actions

Init ==
    /\ args \in [dry_run : BOOLEAN, output : Outputs]
    /\ \E S \in Trees : fs = TreeFs(S)
    /\ phase = "scan"
    /\ run = 1
    /\ matched_files = {}
    /\ task = <<>>
    /\ writes = {}
    /\ fs_init = fs
    /\ fs0 = fs
    /\ prev = <<>>

\* The closure's locals when a task starts.
NewTask ==
    [pc |-> "inspect", date |-> Unknown, time |-> Unknown, parsed |-> None,
     exif_dt |-> None, container |-> "unread", verdict |-> "none", log |-> "none",
     moved |-> "none", spawned |-> 0, touched |-> 0, renamed |-> 0]

\* The walk of main: every regular file below the input directory whose name
\* carries a date is pushed; then the tasks start, one per pushed path.
Scan ==
    /\ phase = "scan"
    /\ matched_files' = {p \in DOMAIN fs : p.dir \in ScanDirs /\ OfName[p.name].dated}
    /\ task' = [p \in matched_files' |-> NewTask]
    /\ phase' = "run"
    /\ fs0' = fs
    /\ UNCHANGED <<args, fs, run, writes, fs_init, prev>>

FileAt(p) == IF p \in DOMAIN fs THEN fs[p] ELSE None

\* A variant that returns from the task when the file cannot be opened: C5 must
\* tell it from AfterMetadata.
AfterMetadata_OpenFailureReturns(log) == IF log = "open_failed" THEN "done" ELSE "move"

\* A variant that calls exiftool again after a failure: C10 must tell it from
\* AfterMetadata.
AfterMetadata_RetryExiftool(log) == IF log = "modify_failed" THEN "set_exif_date" ELSE "move"

\* Where a task goes once its EXIF or timestamp part is over, whatever the
\* branch: to the move of line 180.
AfterMetadata(log) == "move"

\* A variant that forgets --dry-run: C3 must tell it from Mutates.
Mutates_IgnoresDryRun(a) == TRUE

\* In dry-run mode a change is logged, not made.

Mutates(a) == ~a.dry_run

\* What a task logs when its decision needs no change of the file, or in a dry
\* run, and "none" when a call is still to be made.
LogOfVerdict(verdict) ==
    IF verdict = "rewrite" THEN (IF Mutates(args) THEN "none" ELSE "would_modify")
    ELSE IF verdict = "set_time" THEN (IF Mutates(args) THEN "none" ELSE "would_set_time")
    ELSE verdict

\* Where a task is after the branch is taken: at the call the branch makes, or
\* past the metadata part when there is no call to make.
NextPc(verdict, log) ==
    IF log # "none" THEN AfterMetadata(log)
    ELSE IF verdict = "rewrite" THEN "set_exif_date"
    ELSE "set_file_creation_time"

\* The task's locals once the decision d is taken and `log` is logged.
Inspected(t, d, log) ==
    [t EXCEPT !.pc = NextPc(d.verdict, log), !.date = d.date, !.time = d.time,
              !.parsed = d.parsed, !.exif_dt = d.exif_dt,
              !.container = d.container, !.verdict = d.verdict, !.log = log]

InspectedAs(t, d) == Inspected(t, d, LogOfVerdict(d.verdict))

\* Lines 63-178 up to the first call that changes the file: the captures are
\* printed, a .jpg with a date is opened and its EXIF read, and the branch is
\* taken.
Inspect(p) ==
    /\ phase = "run"
    /\ task[p].pc = "inspect"
    /\ task' = [task EXCEPT ![p] = InspectedAs(@, Decide(p.name, FileAt(p)))]
    /\ UNCHANGED <<args, fs, phase, run, matched_files, writes, fs_init, fs0, prev>>

\* exiftool -DateTimeOriginal=<formatted> <file>: it may fail to start or exit
\* with a failure status, and then (by its contract) leaves the file as it is;
\* when it succeeds the field holds the formatted date.
set_exif_date(p) ==
    /\ phase = "run"
    /\ task[p].pc = "set_exif_date"
    /\ \E ok \in BOOLEAN :
        /\ ok => p \in DOMAIN fs
        /\ fs' = IF ok
                 THEN [fs EXCEPT ![p].exif = Container(Ascii(formatted(task[p].parsed)))]
                 ELSE fs
        /\ task' = [task EXCEPT ![p] =
                       [@ EXCEPT !.pc = AfterMetadata(IF ok THEN "modified" ELSE "modify_failed"),
                                 !.log = IF ok THEN "modified" ELSE "modify_failed",
                                 !.spawned = @ + 1]]
        /\ writes' = IF ok THEN writes \cup {[op |-> "exiftool", target |-> p, by |-> p]}
                     ELSE writes
    /\ UNCHANGED <<args, phase, run, matched_files, fs_init, fs0, prev>>

\* fs::metadata, then set_file_times(path, atime, ft): either may fail; when
\* both succeed the modification time is the date and the access time the one
\* just read.
set_file_creation_time(p) ==
    /\ phase = "run"
    /\ task[p].pc = "set_file_creation_time"
    /\ \E ok \in BOOLEAN :
        /\ ok => p \in DOMAIN fs
        /\ fs' = IF ok
                 THEN [fs EXCEPT ![p].mtime = timestamp(task[p].parsed),
                                 ![p].atime = fs[p].atime]
                 ELSE fs
        /\ task' = [task EXCEPT ![p] =
                       [@ EXCEPT !.pc = AfterMetadata(IF ok THEN "set_time" ELSE "set_time_failed"),
                                 !.log = IF ok THEN "set_time" ELSE "set_time_failed",
                                 !.touched = @ + 1]]
        /\ writes' = IF ok
                     THEN writes \cup {[op |-> "set_file_times", target |-> p, by |-> p]}
                     ELSE writes
    /\ UNCHANGED <<args, phase, run, matched_files, fs_init, fs0, prev>>

\* Path::new(out_dir).join(fname)
out_path(p) == Path(args.output, p.name)

\* fs::rename(from, to): the file is at `to` afterwards, in place of what was
\* there; renaming a path to itself changes nothing.
Renamed(f, from, to) ==
    IF from = to THEN f
    ELSE [q \in (DOMAIN f \ {from}) \cup {to} |-> IF q = to THEN f[from] ELSE f[q]]

\* Lines 180-190: without --output nothing; in a dry run a log line; else one
\* rename, which may fail.
Move(p) ==
    /\ phase = "run"
    /\ task[p].pc = "move"
    /\ \/ /\ args.output = NoOutput
          /\ task' = [task EXCEPT ![p] = [@ EXCEPT !.pc = "done", !.moved = "no_output"]]
          /\ UNCHANGED <<fs, writes>>
       \/ /\ args.output # NoOutput
          /\ ~Mutates(args)
          /\ task' = [task EXCEPT ![p] = [@ EXCEPT !.pc = "done", !.moved = "would_move"]]
          /\ UNCHANGED <<fs, writes>>
       \/ /\ args.output # NoOutput
          /\ Mutates(args)
          /\ \E ok \in BOOLEAN :
              /\ ok => p \in DOMAIN fs
              /\ fs' = IF ok THEN Renamed(fs, p, out_path(p)) ELSE fs
              /\ task' = [task EXCEPT ![p] =
                             [@ EXCEPT !.pc = "done",
                                       !.moved = IF ok THEN "moved" ELSE "move_failed",
                                       !.renamed = @ + 1]]
              /\ writes' = IF ok
                           THEN writes \cup {[op |-> "rename", target |-> out_path(p),
                                               by |-> p]}
                           ELSE writes
    /\ UNCHANGED <<args, phase, run, matched_files, fs_init, fs0, prev>>

AllDone == phase = "run" /\ \A p \in matched_files : task[p].pc = "done"

\* The program has ended and is started again with the same arguments.
Rerun ==
    /\ AllDone
    /\ run < MaxRuns
    /\ run' = run + 1
    /\ phase' = "scan"
    /\ prev' = [p \in matched_files |-> task[p].log]
    /\ matched_files' = {}
    /\ task' = <<>>
    /\ writes' = {}
    /\ UNCHANGED <<args, fs, fs_init, fs0>>

\* One run of the program: the walk, then the tasks in any interleaving.
OneRun ==
    \/ Scan
    \/ \E p \in matched_files : Inspect(p)
    \/ \E p \in matched_files : set_exif_date(p)
    \/ \E p \in matched_files : set_file_creation_time(p)
    \/ \E p \in matched_files : Move(p)

Next ==
    \/ Scan
    \/ \E p \in matched_files : Inspect(p)
    \/ \E p \in matched_files : set_exif_date(p)
    \/ \E p \in matched_files : set_file_creation_time(p)
    \/ \E p \in matched_files : Move(p)
    \/ Rerun

Spec == Init /\ [][Next]_vars

\* A single run under the scheduling rayon gives: for_each returns only when
\* every task has run, so no enabled step of the run is put off for ever (each
\* call a task makes is taken to return; an exiftool that hangs is not modelled).
FairSpec == Init /\ [][OneRun]_vars /\ WF_vars(OneRun)

\* ------------------------------------------------------------------- claims

T(p) == task[p]

\* The names one of the four patterns matches, read off the patterns themselves.
PatternNames ==
    {n \in FileNames :
        \/ img_pattern(Chars(n))
        \/ vid_pattern(Chars(n))
        \/ img_date_only_pattern(Chars(n))
        \/ screenshot_pattern(Chars(n))}

\* The task of p has read its file: it is past lines 85-111.
HasRead(p) == T(p).pc # "inspect" /\ T(p).container # "unread"

RewriteRequested(p) == T(p).verdict = "rewrite"

\* C1: for a dated .jpg file whose filename candidate C and embedded date E both
\* parse, a metadata rewrite is requested iff C is strictly earlier than E (in a
\* dry run the request is logged, otherwise exiftool is called once); when C is
\* equal to or later than E no exiftool call and no timestamp update is made, and
\* no timestamp update is made in either case.
C1_RewriteIffStrictlyEarlier ==
    \A p \in matched_files :
        (HasRead(p) /\ OfName[p.name].parsed # None /\ T(p).exif_dt # None) =>
            LET C == OfName[p.name].parsed
                E == T(p).exif_dt
            IN  /\ RewriteRequested(p) <=> DateTimeLt(C, E)
                /\ T(p).touched = 0
                /\ ~DateTimeLt(C, E) => T(p).spawned = 0 /\ T(p).log = "no_change"
                /\ (DateTimeLt(C, E) /\ T(p).pc = "done") =>
                       IF args.dry_run
                       THEN T(p).spawned = 0 /\ T(p).log = "would_modify"
                       ELSE T(p).spawned = 1 /\ T(p).log \in {"modified", "modify_failed"}

\* Two files of the same run: one rewritten because its name's date is earlier
\* than the embedded one, one left alone because the two dates are equal.
C1_Witness ==
    \E p, q \in matched_files :
        /\ T(p).log = "modified" /\ DateTimeLt(T(p).parsed, T(p).exif_dt)
        /\ T(q).log = "no_change" /\ T(q).parsed = T(q).exif_dt

\* C2: a dated .jpg file that was opened and has no embedded capture date (no
\* EXIF container, or a container whose DateTimeOriginal is absent or does not
\* parse) and whose filename candidate parses gets the candidate as its
\* modification time (one timestamp call, no exiftool call) outside a dry run.
C2_NoEmbeddedDateSetsTimestamp ==
    \A p \in matched_files :
        ( /\ T(p).pc = "done"
          /\ HasRead(p)
          /\ OfName[p.name].parsed # None
          /\ T(p).exif_dt = None
          /\ ~args.dry_run ) =>
            T(p).touched = 1 /\ T(p).spawned = 0

\* C3: in a dry run nothing is spawned, no timestamp is set and no file is
\* renamed, so the file system stays as it was at the start; and, in a dry run as
\* in a normal run, the matched files are the dated files of the tree and the date
\* and time printed for each are the captures of its name.
C3_DryRunChangesNothing ==
    /\ args.dry_run =>
          /\ fs = fs_init
          /\ writes = {}
          /\ \A p \in matched_files :
                T(p).spawned = 0 /\ T(p).touched = 0 /\ T(p).renamed = 0
    /\ phase = "run" =>
          /\ matched_files =
                {p \in DOMAIN fs0 : p.dir \in ScanDirs /\ p.name \in PatternNames}
          /\ \A p \in matched_files :
                T(p).pc # "inspect" =>
                    /\ T(p).date = OfName[p.name].date
                    /\ T(p).time = OfName[p.name].time

\* A finished dry run with --output in which a rewrite and a timestamp were due.
C3_Witness ==
    /\ args.dry_run
    /\ args.output # NoOutput
    /\ AllDone
    /\ \E p, q \in matched_files :
          /\ T(p).log = "would_modify" /\ T(p).moved = "would_move"
          /\ T(q).log = "would_set_time" /\ T(q).moved = "would_move"

\* C4: a scanned file whose name matches none of the four patterns is never
\* matched, is the target or the source of no write, and stays at its path with
\* its embedded date and timestamps, also when --output is given.
C4_UnmatchedUntouched ==
    \A p \in DOMAIN fs_init :
        (p.dir \in ScanDirs /\ p.name \notin PatternNames) =>
            /\ p \notin matched_files
            /\ p \in DOMAIN fs
            /\ fs[p] = fs_init[p]
            /\ \A w \in writes : w.target # p /\ w.by # p

\* A run with --output has moved a dated file while a file named like a dated one
\* but for the case of its extension stays.
C4_Witness ==
    /\ args.output # NoOutput
    /\ AllDone
    /\ \E p \in DOMAIN fs_init : p.dir \in ScanDirs /\ p.name = "IMG_20230115_143000.JPG"
    /\ \E q \in matched_files : T(q).moved = "moved"

\* --output is given and this is no dry run: files are renamed.
Relocating == args.output # NoOutput /\ ~args.dry_run

DatedPaths(f) == {p \in DOMAIN f : p.dir \in ScanDirs /\ p.name \in PatternNames}

\* C5: with --output and no dry run, once the tasks of a run have started the run
\* comes to its end with one rename attempted for every dated file of the tree,
\* whatever branch the file's task took.
C5_EveryDatedFileRelocated ==
    (phase = "run" /\ Relocating) ~>
        (AllDone /\ \A p \in DatedPaths(fs0) : p \in matched_files /\ T(p).renamed = 1)

\* A finished run in which a file that could not be opened and a video, which has
\* no EXIF or timestamp step, have both had their rename.
C5_Witness ==
    /\ Relocating
    /\ AllDone
    /\ \E p, q \in matched_files :
          /\ T(p).log = "open_failed" /\ T(p).renamed = 1
          /\ T(q).log = "skipped" /\ T(q).renamed = 1

\* The name of p matches a pattern and its digits are no date and time of day.
InvalidDigits(p) == p.name \in PatternNames /\ OfName[p.name].parsed = None

\* C6 as stated: every dated file whose captured digits form no valid date or
\* time is reported as a parse failure, gets no rewrite and no timestamp, and has
\* its rename attempted when --output is given (and this is no dry run).
C6_InvalidDigitsReported ==
    \A p \in matched_files :
        (T(p).pc = "done" /\ InvalidDigits(p)) =>
            /\ T(p).log = "parse_failed"
            /\ T(p).spawned = 0 /\ T(p).touched = 0
            /\ Relocating => T(p).renamed = 1

\* C6 as amended: a dated file whose captured digits form no valid date or time
\* gets no rewrite and no timestamp and has its rename attempted when --output is
\* given and this is no dry run; it is reported as a parse failure when it is a
\* .jpg that the task could open.
C6_InvalidDigitsNeverMutate ==
    \A p \in matched_files :
        InvalidDigits(p) =>
            /\ T(p).spawned = 0 /\ T(p).touched = 0
            /\ \A w \in writes : w.by = p => w.op = "rename"
            /\ T(p).pc = "done" =>
                  /\ HasRead(p) => T(p).log = "parse_failed"
                  /\ Relocating => T(p).renamed = 1

\* A .jpg with month 13 and an EXIF date: reported, not changed, moved.
C6_Witness ==
    \E p \in matched_files :
        /\ InvalidDigits(p)
        /\ T(p).pc = "done"
        /\ T(p).container = "ok" /\ T(p).exif_dt # None
        /\ T(p).log = "parse_failed"
        /\ T(p).moved = "moved"

\* C7: what the task of a file decides depends on that file alone, as it was when
\* the run started, whatever happens to the tasks of the other files.
C7_OutcomeIsTheFilesOwn ==
    \A p \in matched_files :
        T(p).pc # "inspect" => T(p).verdict = Decide(p.name, fs0[p]).verdict

\* C8: no two tasks write to the same path, be it as the target of exiftool, of
\* the timestamp update or of a rename.
C8_NoTwoTasksWriteOnePath ==
    \A v, w \in writes : v.target = w.target => v.by = w.by

\* C9: without --output and outside a dry run, in a run after the first: a file
\* whose EXIF date the last run rewrote is found to need no change, a file whose
\* modification time the last run set has it set to the same value, and both stay
\* as the last run left them, access time included.
C9_SecondPassChangesNothing ==
    (run > 1 /\ phase = "run" /\ args.output = NoOutput /\ ~args.dry_run) =>
        \A p \in DOMAIN prev :
            /\ prev[p] = "modified" =>
                  /\ p \in matched_files /\ fs[p] = fs0[p]
                  /\ T(p).pc # "inspect" => T(p).log = "no_change" /\ T(p).spawned = 0
            /\ prev[p] = "set_time" =>
                  /\ p \in matched_files /\ fs[p] = fs0[p]
                  /\ T(p).pc # "inspect" => T(p).verdict = "set_time"
                  /\ T(p).log = "set_time" => fs[p].mtime = timestamp(T(p).parsed)

\* The second run has ended: the file rewritten by the first needed no change, the
\* file whose time the first run set had it set again.
C9_Witness ==
    /\ run = 2
    /\ AllDone
    /\ \E p, q \in matched_files :
          /\ p \in DOMAIN prev /\ prev[p] = "modified" /\ T(p).log = "no_change"
          /\ q \in DOMAIN prev /\ prev[q] = "set_time" /\ T(q).log = "set_time"

\* C10: in one run a task makes at most one call of exiftool or of the timestamp
\* update, never both, never again after a failure, and at most one rename; the
\* rename comes last, so exiftool and the timestamp update are given the path the
\* walk found.
C10_EachOperationOnceMoveLast ==
    /\ \A p \in matched_files :
          /\ T(p).spawned + T(p).touched <= 1
          /\ T(p).renamed <= 1
          /\ T(p).renamed = 1 => T(p).pc = "done"
          /\ T(p).pc \in {"set_exif_date", "set_file_creation_time"} =>
                T(p).spawned + T(p).touched = 0
    /\ \A w \in writes :
          /\ w.by \in matched_files
          /\ w.op \in {"exiftool", "set_file_times"} => w.target = w.by
          /\ w.op = "rename" => T(w.by).renamed = 1

\* A finished run: exiftool failed for one file, which was then moved without a
\* second try; the other file had its time set and was moved.
C10_Witness ==
    /\ AllDone
    /\ \E p, q \in matched_files :
          /\ T(p).log = "modify_failed" /\ T(p).spawned = 1 /\ T(p).renamed = 1
          /\ T(q).log = "set_time" /\ T(q).touched = 1 /\ T(q).renamed = 1

====
